---- MODULE Spec2Model ----
(***************************************************************************)
(* Patch-accumulation model of the notebook direct_conv.ipynb: rendering   *)
(* 3x3 components into a (channel, row, column) image, the analytic        *)
(* gradients, the autograd and JAX variants, and the scene builder.        *)
(*                                                                         *)
(* Arrays are 0-based functions, as in numpy: an image is                  *)
(* [0..B-1 -> [0..N-1 -> [0..M-1 -> Int]]], a sed is [0..B-1 -> Int], a    *)
(* morph is [0..2 -> [0..2 -> Int]], a list of K things is a function on   *)
(* 0..K-1.  Values are integers: floating-point rounding is not modelled.  *)
(***************************************************************************)
EXTENDS Integers, Sequences, FiniteSets, TLC

VARIABLES
    nb_K,        \* the notebook-level K of the cell "Test the models"
    nb_shape,    \* the notebook-level shape of that cell
    nb_images,   \* the notebook-level images, centers, seds and morphs:
    nb_centers,  \*   Undefined until that cell assigns them from build_scene;
    nb_seds,     \*   loss_autograd reads the notebook-level centers
    nb_morphs,
    nb_g,        \* the notebook-level g_direct, g_auto, g_jax and g_jit
    frame,       \* the activation of build_scene, or Idle
    cell,        \* the position in the cell that compares the gradients
    call,        \* the function called and its arguments, or NoCall
    ret          \* what the call returned or raised

vars == <<nb_K, nb_shape, nb_images, nb_centers, nb_seds, nb_morphs, nb_g,
          frame, cell, call, ret>>

----------------------------------------------------------------------------
(* Bounds of the model *)

MaxK == 2          \* components of a call or of a scene, at most
MaxSceneDim == 10  \* rows and columns of a built scene, at most

(* Program constants *)

Win == 3           \* a component's window is 3x3: slice(y-1, y+2)
Margin == 4        \* build_scene draws centers in [4, n-4)
SedTotal == 500    \* build_scene scales each sed to sum to 500

----------------------------------------------------------------------------
(* numpy helpers *)

Min(a, b) == IF a < b THEN a ELSE b
Max(a, b) == IF a > b THEN a ELSE b

Size(f) == Cardinality(DOMAIN f)

RECURSIVE SumTo(_, _)
\* sum of f[i] for i in 0..n-1
SumTo(f, n) == IF n <= 0 THEN 0 ELSE f[n - 1] + SumTo(f, n - 1)

\* the shape (B, N, M) of a non-empty 3-D array
ShapeOf(a) == <<Size(a), Size(a[0]), Size(a[0][0])>>

\* Zeros filled with ones, as np.ones(shape) would
ZerosAsOnes(sh) == [c \in 0..sh[1]-1 |-> [r \in 0..sh[2]-1 |-> [q \in 0..sh[3]-1 |-> 1]]]

\* np.zeros(shape)
Zeros(sh) == [c \in 0..sh[1]-1 |-> [r \in 0..sh[2]-1 |-> [q \in 0..sh[3]-1 |-> 0]]]

\* slice(start, stop); slice(None) is the whole axis
Slice(a, b) == [all |-> FALSE, start |-> a, stop |-> b]
SliceNone == [all |-> TRUE, start |-> 0, stop |-> 0]

\* Python's slice.indices for step 1 on an axis of length n: negative bounds
\* count from the end, and both bounds are clipped to 0..n
ClipIndex(i, n) == IF i < 0 THEN Max(i + n, 0) ELSE Min(i, n)
SliceStart(s, n) == IF s.all THEN 0 ELSE ClipIndex(s.start, n)
SliceStop(s, n) == IF s.all THEN n ELSE ClipIndex(s.stop, n)
SliceLen(s, n) == Max(SliceStop(s, n) - SliceStart(s, n), 0)

\* a Python tuple and a Python list of the same items are different values
PyTuple(items) == [type |-> "tuple", items |-> items]
PyList(items) == [type |-> "list", items |-> items]

\* what a call returns or raises
Returned(v) == [exc |-> "none", val |-> v]
Raised(e) == [exc |-> e, val |-> <<>>]
Undefined == [defined |-> FALSE, val |-> <<>>]
Defined(v) == [defined |-> TRUE, val |-> v]

----------------------------------------------------------------------------
(* Direct gradients *)

\* BoxOf one pixel up and left: (slice(y-2, y+1), slice(x-2, x+1))
BoxOfShifted(center) ==
    <<Slice(center[1] - 2, center[1] + 1), Slice(center[2] - 2, center[2] + 1)>>

\* the box of a center: (slice(y-1, y+2), slice(x-1, x+2))
BoxOf(center) ==
    <<Slice(center[1] - 1, center[1] + 2), Slice(center[2] - 1, center[2] + 2)>>

\* GetComponentModel with the morph transposed
GetComponentModelTransposed(sed, morph, center) ==
    [model |-> [c \in DOMAIN sed |->
                  [i \in DOMAIN morph |->
                     [j \in DOMAIN morph[i] |-> sed[c] * morph[j][i]]]],
     box |-> BoxOf(center)]

\* get_component_model: sed[:, None, None] * morph[None, :, :] and the box
GetComponentModel(sed, morph, center) ==
    [model |-> [c \in DOMAIN sed |->
                  [i \in DOMAIN morph |->
                     [j \in DOMAIN morph[i] |-> sed[c] * morph[i][j]]]],
     box |-> BoxOf(center)]

\* numpy broadcasting of a source axis of length s onto a target axis of length t
Broadcastable(s, t) == s = t \/ s = 1
BIndex(s, i) == IF s = 1 THEN 0 ELSE i

\* whether target[:, box[0], box[1]] += source is accepted by numpy
CanAddAt(target, source, rows, cols) ==
    LET sh == ShapeOf(target)
    IN  /\ Broadcastable(Size(source), sh[1])
        /\ Broadcastable(Win, SliceLen(rows, sh[2]))
        /\ Broadcastable(Win, SliceLen(cols, sh[3]))

\* AddAt as an assignment, target[:, rows, cols] = source
AddAtAssigning(target, source, rows, cols) ==
    LET sh == ShapeOf(target)
        r0 == SliceStart(rows, sh[2])
        r1 == SliceStop(rows, sh[2])
        q0 == SliceStart(cols, sh[3])
        q1 == SliceStop(cols, sh[3])
        bs == Size(source)
    IN  [c \in 0..sh[1]-1 |->
          [r \in 0..sh[2]-1 |->
            [q \in 0..sh[3]-1 |->
               IF r >= r0 /\ r < r1 /\ q >= q0 /\ q < q1
               THEN source[BIndex(bs, c)][r - r0][q - q0]
               ELSE target[c][r][q]]]]

\* target[:, rows, cols] += source, where it is accepted
AddAt(target, source, rows, cols) ==
    LET sh == ShapeOf(target)
        r0 == SliceStart(rows, sh[2])
        r1 == SliceStop(rows, sh[2])
        q0 == SliceStart(cols, sh[3])
        q1 == SliceStop(cols, sh[3])
        bs == Size(source)
    IN  [c \in 0..sh[1]-1 |->
          [r \in 0..sh[2]-1 |->
            [q \in 0..sh[3]-1 |->
               IF r >= r0 /\ r < r1 /\ q >= q0 /\ q < q1
               THEN target[c][r][q] + source[BIndex(bs, c)][r - r0][q - q0]
               ELSE target[c][r][q]]]]

\* the loop of get_full_model from component k on; box is the local variable
\* box (Undefined before the first iteration)
RECURSIVE FullModelLoop(_, _, _, _, _, _, _)
FullModelLoop(k, model, boxes, box, seds, morphs, centers) ==
    IF k >= Size(seds)
    THEN [exc |-> "none", model |-> model, boxes |-> boxes, box |-> box]
    ELSE IF k \notin DOMAIN morphs \/ k \notin DOMAIN centers
    THEN [exc |-> "IndexError", model |-> model, boxes |-> boxes, box |-> box]
    ELSE LET cm == GetComponentModel(seds[k], morphs[k], centers[k])
         IN  IF ~CanAddAt(model, cm.model, cm.box[1], cm.box[2])
             THEN [exc |-> "ValueError", model |-> model, boxes |-> boxes,
                   box |-> Defined(cm.box)]
             ELSE FullModelLoop(k + 1,
                                AddAt(model, cm.model, cm.box[1], cm.box[2]),
                                Append(boxes, cm.box), Defined(cm.box),
                                seds, morphs, centers)

\* the value of the return statement "return model, box"
ReturnModelBox(loop) ==
    IF loop.exc # "none" THEN Raised(loop.exc)
    ELSE IF ~loop.box.defined THEN Raised("UnboundLocalError")
    ELSE Returned(<<loop.model, PyTuple(loop.box.val)>>)

\* get_full_model(seds, morphs, centers, shape)
GetFullModel(seds, morphs, centers, sh) ==
    ReturnModelBox(FullModelLoop(0, Zeros(sh), <<>>, Undefined, seds, morphs, centers))

\* chain_grad[:, rows, cols], a basic slice: never an error, maybe empty
SliceOf(a, rows, cols) ==
    LET sh == ShapeOf(a)
        r0 == SliceStart(rows, sh[2])
        q0 == SliceStart(cols, sh[3])
    IN  [c \in 0..sh[1]-1 |->
          [i \in 0..SliceLen(rows, sh[2])-1 |->
            [j \in 0..SliceLen(cols, sh[3])-1 |-> a[c][r0 + i][q0 + j]]]]

\* np.einsum("...jk,jk", _chain_grad, morph): the sum over j, k of
\* _chain_grad[c, j, k] * morph[j, k]; an axis of length 1 is broadcast
SedGradOf(cg, morph) ==
    LET h == Size(cg[0])
        w == Size(cg[0][0])
    IN  [c \in DOMAIN cg |->
          SumTo([j \in 0..Win-1 |->
                   SumTo([k \in 0..Win-1 |->
                            cg[c][BIndex(h, j)][BIndex(w, k)] * morph[j][k]], Win)], Win)]

\* np.einsum("i,i...", sed, _chain_grad): the sum over i of
\* sed[i] * _chain_grad[i, j, k]; an axis of length 1 is broadcast
MorphGradOf(sed, cg) ==
    LET bs == Size(sed)
        b == Size(cg)
    IN  [j \in DOMAIN cg[0] |->
          [k \in DOMAIN cg[0][j] |->
             SumTo([i \in 0..Max(bs, b)-1 |->
                      sed[BIndex(bs, i)] * cg[BIndex(b, i)][j][k]], Max(bs, b))]]

\* whether the two einsum calls accept a window slice of h rows and w columns of
\* a chain gradient with b channels, and a sed of bs channels
EinsumAccepts(b, h, w, bs) ==
    /\ h = Win \/ h = 1
    /\ w = Win \/ w = 1
    /\ bs = b \/ bs = 1 \/ b = 1

\* grad_get_component_model
GradGetComponentModel(chain_grad, model, sed, morph, center) ==
    LET box == BoxOf(center)
        cg == SliceOf(chain_grad, box[1], box[2])
    IN  IF ~EinsumAccepts(Size(cg), Size(cg[0]), Size(cg[0][0]), Size(sed))
        THEN Raised("ValueError")
        ELSE Returned(<<SedGradOf(cg, morph), MorphGradOf(sed, cg)>>)

\* the loop of grad_get_full_model from component k on
RECURSIVE GradFullModelLoop(_, _, _, _, _, _, _, _)
GradFullModelLoop(k, sed_grads, morph_grads, chain_grad, model, centers, seds, morphs) ==
    IF k >= Size(centers)
    THEN Returned(<<sed_grads, morph_grads>>)
    ELSE IF k \notin DOMAIN seds \/ k \notin DOMAIN morphs
    THEN Raised("IndexError")
    ELSE LET grads == GradGetComponentModel(chain_grad, model, seds[k], morphs[k], centers[k])
         IN  IF grads.exc # "none" THEN grads
             ELSE GradFullModelLoop(k + 1,
                                    [i \in 0..k |-> IF i = k THEN grads.val[1] ELSE sed_grads[i]],
                                    [i \in 0..k |-> IF i = k THEN grads.val[2] ELSE morph_grads[i]],
                                    chain_grad, model, centers, seds, morphs)

\* grad_get_full_model
GradGetFullModel(chain_grad, model, centers, seds, morphs) ==
    GradFullModelLoop(0, <<>>, <<>>, chain_grad, model, centers, seds, morphs)

\* logL with weights = 1 is 0.5*(data-model)**2; this is twice it, an integer
TwiceLogL(data, model) ==
    [c \in DOMAIN model |->
      [r \in DOMAIN model[c] |->
        [q \in DOMAIN model[c][r] |->
           (data[c][r][q] - model[c][r][q]) * (data[c][r][q] - model[c][r][q])]]]

\* GradLogL with the difference reversed, weights*(data-model)
GradLogLReversed(data, model) ==
    [c \in DOMAIN model |->
      [r \in DOMAIN model[c] |->
        [q \in DOMAIN model[c][r] |-> 1 * (data[c][r][q] - model[c][r][q])]]]

\* grad_logL with weights = 1: weights*(model-data)
GradLogL(data, model) ==
    [c \in DOMAIN model |->
      [r \in DOMAIN model[c] |->
        [q \in DOMAIN model[c][r] |-> 1 * (model[c][r][q] - data[c][r][q])]]]

\* calculate_gradients_direct(images, centers, seds, morphs)
CalculateGradientsDirect(images, centers, seds, morphs) ==
    LET full == GetFullModel(seds, morphs, centers, ShapeOf(images))
    IN  IF full.exc # "none" THEN full
        ELSE LET model == full.val[1]
                 gL == GradLogL(images, model)
             IN  GradGetFullModel(gL, model, centers, seds, morphs)

----------------------------------------------------------------------------
(* autograd gradients *)

\* whether destination[slices] += source is accepted
CanAddSlice(destination, source, slices) ==
    CanAddAt(destination, source, slices[2], slices[3])

\* add_slice: destination[slices] += source; return destination
AddSlice(destination, source, slices) ==
    AddAt(destination, source, slices[2], slices[3])

\* grad_add_slice_dest: the vector-Jacobian product for destination
GradAddSliceDest(grad_chain) == grad_chain

\* grad_add_slice_src: the vector-Jacobian product for source, grad_chain[slices]
GradAddSliceSrc(slices, grad_chain) == SliceOf(grad_chain, slices[2], slices[3])

\* the loop of get_full_model_autograd from component k on
RECURSIVE FullModelAutogradLoop(_, _, _, _, _, _, _)
FullModelAutogradLoop(k, model, boxes, box, seds, morphs, centers) ==
    IF k >= Size(seds)
    THEN [exc |-> "none", model |-> model, boxes |-> boxes, box |-> box]
    ELSE IF k \notin DOMAIN morphs \/ k \notin DOMAIN centers
    THEN [exc |-> "IndexError", model |-> model, boxes |-> boxes, box |-> box]
    ELSE LET cm == GetComponentModel(seds[k], morphs[k], centers[k])
             bx == <<SliceNone>> \o cm.box
         IN  IF ~CanAddSlice(model, cm.model, bx)
             THEN [exc |-> "ValueError", model |-> model, boxes |-> boxes,
                   box |-> Defined(bx)]
             ELSE FullModelAutogradLoop(k + 1, AddSlice(model, cm.model, bx),
                                        Append(boxes, bx), Defined(bx),
                                        seds, morphs, centers)

\* get_full_model_autograd(seds, morphs, centers, shape)
GetFullModelAutograd(seds, morphs, centers, sh) ==
    ReturnModelBox(FullModelAutogradLoop(0, Zeros(sh), <<>>, Undefined,
                                         seds, morphs, centers))

\* the vector-Jacobian product of anp.sum(logL(image, model)) for model:
\* 0.5*2*(image-model) for the square, negated for the subtraction
VjpLoss(image, model) ==
    [c \in DOMAIN model |->
      [r \in DOMAIN model[c] |->
        [q \in DOMAIN model[c][r] |-> -(image[c][r][q] - model[c][r][q])]]]

\* the vector-Jacobian products of sed[:, None, None]*morph[None, :, :] for
\* sed and for morph, given the gradient g of the product; a broadcast axis
\* is summed back
VjpComponentSed(g, sed, morph) ==
    LET bs == Size(sed)
    IN  [c \in DOMAIN sed |->
          SumTo([cc \in DOMAIN g |->
                   IF BIndex(bs, cc) # c THEN 0
                   ELSE SumTo([i \in 0..Win-1 |->
                                 SumTo([j \in 0..Win-1 |-> g[cc][i][j] * morph[i][j]],
                                       Win)], Win)], Size(g))]
VjpComponentMorph(g, sed, morph) ==
    LET bs == Size(sed)
    IN  [i \in DOMAIN morph |->
          [j \in DOMAIN morph[i] |->
             SumTo([cc \in DOMAIN g |-> g[cc][i][j] * sed[BIndex(bs, cc)]], Size(g))]]

\* the backward pass over the add_slice calls, last call first: each hands
\* grad_chain[slices] to its source and grad_chain on to its destination
RECURSIVE BackwardLoop(_, _, _, _, _, _, _)
BackwardLoop(k, grad_chain, sed_grads, morph_grads, boxes, seds, morphs) ==
    IF k < 0 THEN <<sed_grads, morph_grads>>
    ELSE LET g == GradAddSliceSrc(boxes[k + 1], grad_chain)
         IN  BackwardLoop(k - 1, GradAddSliceDest(grad_chain),
                          [sed_grads EXCEPT ![k] = VjpComponentSed(g, seds[k], morphs[k])],
                          [morph_grads EXCEPT ![k] = VjpComponentMorph(g, seds[k], morphs[k])],
                          boxes, seds, morphs)

\* calculate_gradients_autograd(images, centers, seds, morphs): the gradient
\* of loss_autograd for seds and morphs. loss_autograd renders with the
\* notebook-level centers (the parameter glob here), not with centers
CalculateGradientsAutograd(images, centers, seds, morphs, glob) ==
    IF ~glob.defined THEN Raised("NameError")
    ELSE LET loop == FullModelAutogradLoop(0, Zeros(ShapeOf(images)), <<>>,
                                           Undefined, seds, morphs, glob.val)
             full == ReturnModelBox(loop)
         IN  IF full.exc # "none" THEN full
             ELSE Returned(BackwardLoop(Size(seds) - 1,
                                        VjpLoss(images, full.val[1]),
                                        [k \in DOMAIN seds |-> <<>>],
                                        [k \in DOMAIN morphs |-> <<>>],
                                        loop.boxes, seds, morphs))

----------------------------------------------------------------------------
(* JAX and JIT *)

\* jax.ops.index_add(model, jax.ops.index[box], _model): a new array
CanIndexAdd(model, idx, source) == CanAddAt(model, source, idx[2], idx[3])
IndexAdd(model, idx, source) == AddAt(model, source, idx[2], idx[3])

\* the loop of get_full_model_jax from component k on
RECURSIVE FullModelJaxLoop(_, _, _, _, _, _, _)
FullModelJaxLoop(k, model, boxes, box, seds, morphs, centers) ==
    IF k >= Size(seds)
    THEN [exc |-> "none", model |-> model, boxes |-> boxes, box |-> box]
    ELSE IF k \notin DOMAIN morphs \/ k \notin DOMAIN centers
    THEN [exc |-> "IndexError", model |-> model, boxes |-> boxes, box |-> box]
    ELSE LET cm == GetComponentModel(seds[k], morphs[k], centers[k])
             bx == <<SliceNone>> \o cm.box
         IN  IF ~CanIndexAdd(model, bx, cm.model)
             THEN [exc |-> "ValueError", model |-> model, boxes |-> boxes,
                   box |-> Defined(bx)]
             ELSE FullModelJaxLoop(k + 1, IndexAdd(model, bx, cm.model),
                                   Append(boxes, bx), Defined(bx),
                                   seds, morphs, centers)

\* get_full_model_jax(seds, morphs, centers, shape)
GetFullModelJax(seds, morphs, centers, sh) ==
    ReturnModelBox(FullModelJaxLoop(0, Zeros(sh), <<>>, Undefined, seds, morphs, centers))

\* get_component_model_jit: sed and morph broadcast to (B, 3, 3), multiplied
GetComponentModelJit(sed, morph) ==
    LET _sed == [c \in DOMAIN sed |-> [i \in 0..Win-1 |-> [j \in 0..Win-1 |-> sed[c]]]]
        _morph == [c \in DOMAIN sed |-> [i \in 0..Win-1 |-> [j \in 0..Win-1 |-> morph[i][j]]]]
    IN  [c \in DOMAIN sed |->
          [i \in 0..Win-1 |-> [j \in 0..Win-1 |-> _sed[c][i][j] * _morph[c][i][j]]]]

\* jax.lax clamps a start index so that the slice lies inside the operand
ClampStart(start, size, n) == Max(0, Min(start, n - size))

\* whether a slice of these sizes fits the operand at all
SliceFits(operand, sizes) ==
    LET sh == ShapeOf(operand)
    IN  sizes[1] <= sh[1] /\ sizes[2] <= sh[2] /\ sizes[3] <= sh[3]

\* jax.lax.dynamic_slice(operand, start_indices, slice_sizes)
DynamicSlice(operand, start, sizes) ==
    LET sh == ShapeOf(operand)
        c0 == ClampStart(start[1], sizes[1], sh[1])
        r0 == ClampStart(start[2], sizes[2], sh[2])
        q0 == ClampStart(start[3], sizes[3], sh[3])
    IN  [c \in 0..sizes[1]-1 |->
          [i \in 0..sizes[2]-1 |->
            [j \in 0..sizes[3]-1 |-> operand[c0 + c][r0 + i][q0 + j]]]]

\* jax.lax.dynamic_update_slice(operand, update, start_indices)
DynamicUpdateSlice(operand, update, start) ==
    LET sh == ShapeOf(operand)
        us == ShapeOf(update)
        c0 == ClampStart(start[1], us[1], sh[1])
        r0 == ClampStart(start[2], us[2], sh[2])
        q0 == ClampStart(start[3], us[3], sh[3])
    IN  [c \in 0..sh[1]-1 |->
          [r \in 0..sh[2]-1 |->
            [q \in 0..sh[3]-1 |->
               IF /\ c >= c0 /\ c < c0 + us[1]
                  /\ r >= r0 /\ r < r0 + us[2]
                  /\ q >= q0 /\ q < q0 + us[3]
               THEN update[c - c0][r - r0][q - q0]
               ELSE operand[c][r][q]]]]

\* UpdateModel that writes the patch without adding the window it read
UpdateModelOverwriting(model, k, seds, morphs, centers) ==
    LET y == centers[k][1]
        x == centers[k][2]
        _model == GetComponentModelJit(seds[k], morphs[k])
    IN  DynamicUpdateSlice(model, _model, <<0, y - 1, x - 1>>)

\* _update_model(model, k, seds, morphs, centers): the new carry
UpdateModel(model, k, seds, morphs, centers) ==
    LET y == centers[k][1]
        x == centers[k][2]
        _model == GetComponentModelJit(seds[k], morphs[k])
        start_indices == <<0, y - 1, x - 1>>
        window == DynamicSlice(model, start_indices, ShapeOf(_model))
        summed == [c \in DOMAIN _model |->
                     [i \in 0..Win-1 |->
                        [j \in 0..Win-1 |-> _model[c][i][j] + window[c][i][j]]]]
    IN  DynamicUpdateSlice(model, summed, start_indices)

\* jax.lax.scan(func, model, np.arange(len(seds))) from step k on
RECURSIVE ScanLoop(_, _, _, _, _)
ScanLoop(k, model, seds, morphs, centers) ==
    IF k >= Size(seds) THEN Returned(model)
    ELSE IF k \notin DOMAIN morphs \/ k \notin DOMAIN centers
    THEN Raised("IndexError")
    ELSE IF ~SliceFits(model, <<Size(seds[k]), Win, Win>>)
    THEN Raised("TypeError")
    ELSE ScanLoop(k + 1, UpdateModel(model, k, seds, morphs, centers), seds, morphs, centers)

\* get_full_model_jit(seds, morphs, centers, shape): returns the model alone
GetFullModelJit(seds, morphs, centers, sh) == ScanLoop(0, Zeros(sh), seds, morphs, centers)

\* calculate_gradients_jax(images, centers, seds, morphs): the gradient of
\* loss_jax, which renders with the centers it is given; index_add hands the
\* gradient on to its operand and its slice at idx to the patch added, as
\* add_slice does
CalculateGradientsJax(images, centers, seds, morphs) ==
    LET loop == FullModelJaxLoop(0, Zeros(ShapeOf(images)), <<>>, Undefined,
                                 seds, morphs, centers)
        full == ReturnModelBox(loop)
    IN  IF full.exc # "none" THEN full
        ELSE Returned(BackwardLoop(Size(seds) - 1,
                                   VjpLoss(images, full.val[1]),
                                   [k \in DOMAIN seds |-> <<>>],
                                   [k \in DOMAIN morphs |-> <<>>],
                                   loop.boxes, seds, morphs))

\* the backward pass over the steps of the scan, last step first: the
\* gradient of the carry passes through _update_model unchanged (the window
\* read by dynamic_slice is the window dynamic_update_slice overwrites) and
\* its window at start_indices is the gradient of the patch
RECURSIVE BackwardScan(_, _, _, _, _, _, _)
BackwardScan(k, grad, sed_grads, morph_grads, seds, morphs, centers) ==
    IF k < 0 THEN <<sed_grads, morph_grads>>
    ELSE LET y == centers[k][1]
             x == centers[k][2]
             g == DynamicSlice(grad, <<0, y - 1, x - 1>>, <<Size(seds[k]), Win, Win>>)
         IN  BackwardScan(k - 1, grad,
                          [sed_grads EXCEPT ![k] = VjpComponentSed(g, seds[k], morphs[k])],
                          [morph_grads EXCEPT ![k] = VjpComponentMorph(g, seds[k], morphs[k])],
                          seds, morphs, centers)

\* calculate_gradients_jit(images, centers, seds, morphs): the gradient of
\* loss_jit
CalculateGradientsJit(images, centers, seds, morphs) ==
    LET full == GetFullModelJit(seds, morphs, centers, ShapeOf(images))
    IN  IF full.exc # "none" THEN full
        ELSE Returned(BackwardScan(Size(seds) - 1, VjpLoss(images, full.val),
                                   [k \in DOMAIN seds |-> <<>>],
                                   [k \in DOMAIN morphs |-> <<>>],
                                   seds, morphs, centers))

----------------------------------------------------------------------------
(* The arrays of a call as objects                                         *)
(*                                                                         *)
(* numpy arrays are mutable objects and "+=" writes into the object on its *)
(* left. A store is a function from object ids 0..n-1 to array values; the *)
(* functions below are get_full_model, get_full_model_autograd and the two *)
(* gradient functions on it, taking the ids of their arguments.            *)

\* NewArray that hands out object 0 of the store instead of a new object
NewArrayAliasing(store, value) == [store |-> store, id |-> 0]

\* a newly created array, as np.zeros(shape) returns: a new object
NewArray(store, value) ==
    [store |-> store @@ (Size(store) :> value), id |-> Size(store)]

\* model[:, box[0], box[1]] += _model: writes into the object model
StoreAddAt(store, model, source, rows, cols) ==
    [store EXCEPT ![model] = AddAt(@, source, rows, cols)]

\* the loop of get_full_model from component k on, model being an object
RECURSIVE StoreFullModelLoop(_, _, _, _, _, _, _, _)
StoreFullModelLoop(k, store, model, boxes, box, seds, morphs, centers) ==
    IF k >= Size(store[seds])
    THEN [exc |-> "none", store |-> store, model |-> store[model],
          boxes |-> boxes, box |-> box]
    ELSE IF k \notin DOMAIN store[morphs] \/ k \notin DOMAIN store[centers]
    THEN [exc |-> "IndexError", store |-> store, model |-> store[model],
          boxes |-> boxes, box |-> box]
    ELSE LET cm == GetComponentModel(store[seds][k], store[morphs][k], store[centers][k])
         IN  IF ~CanAddAt(store[model], cm.model, cm.box[1], cm.box[2])
             THEN [exc |-> "ValueError", store |-> store, model |-> store[model],
                   boxes |-> boxes, box |-> Defined(cm.box)]
             ELSE StoreFullModelLoop(k + 1,
                                     StoreAddAt(store, model, cm.model, cm.box[1], cm.box[2]),
                                     model, Append(boxes, cm.box), Defined(cm.box),
                                     seds, morphs, centers)

\* get_full_model on the store: what it returns, the store it leaves and the
\* object it accumulated into
StoreGetFullModel(store, seds, morphs, centers, sh) ==
    LET new == NewArray(store, Zeros(sh))
        loop == StoreFullModelLoop(0, new.store, new.id, <<>>, Undefined,
                                   seds, morphs, centers)
    IN  [ret |-> ReturnModelBox(loop), store |-> loop.store, model |-> new.id]

\* calculate_gradients_direct on the store
StoreCalculateGradientsDirect(store, images, centers, seds, morphs) ==
    LET full == StoreGetFullModel(store, seds, morphs, centers, ShapeOf(store[images]))
    IN  IF full.ret.exc # "none" THEN full
        ELSE LET model == full.ret.val[1]
                 gL == GradLogL(full.store[images], model)
             IN  [full EXCEPT !.ret = GradGetFullModel(gL, model, full.store[centers],
                                                      full.store[seds], full.store[morphs])]

\* add_slice: destination[slices] += source writes into the object
\* destination, which is also what it returns
StoreAddSlice(store, destination, source, slices) ==
    [store EXCEPT ![destination] = AddSlice(@, source, slices)]

\* the loop of get_full_model_autograd from component k on
RECURSIVE StoreFullModelAutogradLoop(_, _, _, _, _, _, _, _)
StoreFullModelAutogradLoop(k, store, model, boxes, box, seds, morphs, centers) ==
    IF k >= Size(store[seds])
    THEN [exc |-> "none", store |-> store, model |-> store[model],
          boxes |-> boxes, box |-> box]
    ELSE IF k \notin DOMAIN store[morphs] \/ k \notin DOMAIN store[centers]
    THEN [exc |-> "IndexError", store |-> store, model |-> store[model],
          boxes |-> boxes, box |-> box]
    ELSE LET cm == GetComponentModel(store[seds][k], store[morphs][k], store[centers][k])
             bx == <<SliceNone>> \o cm.box
         IN  IF ~CanAddSlice(store[model], cm.model, bx)
             THEN [exc |-> "ValueError", store |-> store, model |-> store[model],
                   boxes |-> boxes, box |-> Defined(bx)]
             ELSE StoreFullModelAutogradLoop(k + 1,
                                             StoreAddSlice(store, model, cm.model, bx),
                                             model, Append(boxes, bx), Defined(bx),
                                             seds, morphs, centers)

\* calculate_gradients_autograd on the store; glob is the object the
\* notebook-level name centers is bound to, if it is bound
StoreCalculateGradientsAutograd(store, images, centers, seds, morphs, glob) ==
    IF ~glob.defined
    THEN [ret |-> Raised("NameError"), store |-> store, model |-> Size(store)]
    ELSE LET new == NewArray(store, Zeros(ShapeOf(store[images])))
             loop == StoreFullModelAutogradLoop(0, new.store, new.id, <<>>, Undefined,
                                                seds, morphs, glob.val)
             full == ReturnModelBox(loop)
         IN  [ret |-> IF full.exc # "none" THEN full
                      ELSE Returned(BackwardLoop(Size(store[seds]) - 1,
                                                 VjpLoss(loop.store[images], full.val[1]),
                                                 [k \in DOMAIN store[seds] |-> <<>>],
                                                 [k \in DOMAIN store[morphs] |-> <<>>],
                                                 loop.boxes, loop.store[seds],
                                                 loop.store[morphs])),
              store |-> loop.store,
              model |-> new.id]

----------------------------------------------------------------------------
(* Build and display the model *)

\* np.arange(9).reshape(3, 3)
MorphArange == [i \in 0..Win-1 |-> [j \in 0..Win-1 |-> Win * i + j]]

\* RandInt with high included, as random.randint(low, high) draws
RandIntInclusive(low, high) == low..high

\* np.random.randint(low, high): the integers low..high-1, none if low >= high
RandInt(low, high) == low..(high - 1)

\* np.random.rand(B) scaled by 500/np.sum(sed): B non-negative numbers that
\* sum to 500; the draws of the model are the multiples of 100 among them
SceneSeds(b) ==
    {s \in [0..b-1 -> {100, 200, 300, 400, 500}] : SumTo(s, b) = SedTotal}

Idle == [pc |-> "idle"]

\* build_scene at its second loop, after the arrays are set up
SceneStart(sh, k) ==
    [pc |-> "place", k |-> 0, K |-> k, B |-> sh[1], N |-> sh[2], M |-> sh[3],
     images |-> Zeros(sh),
     centers |-> [i \in 0..k-1 |-> <<0, 0>>],
     seds |-> [i \in 0..k-1 |-> [c \in 0..sh[1]-1 |-> 0]],
     morphs |-> [i \in 0..k-1 |-> MorphArange]]

\* the centers build_scene can draw: (cy, cx)
SceneDraws(f) ==
    RandInt(Margin, Size(f.images[0]) - Margin)
        \X RandInt(Margin, Size(f.images[0][0]) - Margin)

\* one iteration of the placement loop with the drawn center and sed
ScenePlace(f, center, sed) ==
    LET y == center[1]
        x == center[2]
        patch == [c \in DOMAIN sed |->
                    [i \in 0..Win-1 |-> [j \in 0..Win-1 |-> f.morphs[f.k][i][j] * sed[c]]]]
    IN  [f EXCEPT !.k = f.k + 1,
                  !.centers[f.k] = center,
                  !.images = AddAt(f.images, patch, Slice(y - 1, y + 2), Slice(x - 1, x + 2)),
                  !.seds[f.k] = sed]

----------------------------------------------------------------------------
(* Inputs of the calls *)

\* the template with a single 1 at its center, as morphs[:, 1, 1] = 1 sets it
MorphCenter == [i \in 0..Win-1 |-> [j \in 0..Win-1 |-> IF i = 1 /\ j = 1 THEN 1 ELSE 0]]

\* channel counts
Channels == {1, 2}

\* a component's sed and morph, for b channels
Kinds(b) ==
    {[sed |-> [c \in 0..b-1 |-> 1], morph |-> MorphCenter],
     [sed |-> [c \in 0..b-1 |-> c + 2], morph |-> MorphArange]}

\* centers whose window lies inside n rows and m columns
InBoundsCenters(n, m) == (1..n-2) \X (1..m-2)

\* the shapes of the calls and the centers of each: (b, 6, 7) images, and
\* for calculate_gradients_direct (b, 4, 6) images, with centers whose windows
\* touch each edge, coincide, overlap and lie apart; and the (1, 11, 11)
\* image with one component anywhere
ExampleShape == <<1, 11, 11>>
CallShapes == {<<b, 6, 7>> : b \in Channels} \cup {ExampleShape}
DirectShapes == {<<b, 4, 6>> : b \in Channels}
CentersFor(sh) ==
    IF sh = ExampleShape THEN InBoundsCenters(sh[2], sh[3])
    ELSE IF sh[2] = 4 THEN {<<1, 1>>, <<2, 2>>, <<2, 4>>}
    ELSE {<<1, 1>>, <<2, 2>>, <<4, 4>>, <<4, 5>>}
MaxKFor(sh) == IF sh = ExampleShape THEN 1 ELSE MaxK

\* lists of k components: k pairs of a kind and a center
ComponentLists(k, sh) == [0..k-1 -> Kinds(sh[1]) \X CentersFor(sh)]

\* data images of a shape: one that differs at every pixel, and for the larger
\* shapes the zero image
Ramp(sh) ==
    [c \in 0..sh[1]-1 |-> [r \in 0..sh[2]-1 |-> [q \in 0..sh[3]-1 |-> 7 * c + 3 * r + q - 5]]]
DataImages(sh) == IF sh \in DirectShapes THEN {Ramp(sh)} ELSE {Zeros(sh), Ramp(sh)}

RenderArgs(comps, sh) ==
    [images |-> <<>>,
     centers |-> [i \in DOMAIN comps |-> comps[i][2]],
     seds |-> [i \in DOMAIN comps |-> comps[i][1].sed],
     morphs |-> [i \in DOMAIN comps |-> comps[i][1].morph],
     shape |-> sh]

GradArgs(comps, img) == [RenderArgs(comps, ShapeOf(img)) EXCEPT !.images = img]

NoCall == [fn |-> "none", args |-> <<>>]

\* none of g_direct, g_auto, g_jax, g_jit is bound
NoResults == [n \in {"g_direct", "g_auto", "g_jax", "g_jit"} |-> Undefined]

\* the cell that compares the gradients is not being run
NotRunning == [pc |-> "idle"]

----------------------------------------------------------------------------
(* The notebook after its scene cell has run on a (1, 9, 9) image *)

RECURSIVE SceneRun(_)
\* build_scene run to its end, every draw the least one
SceneRun(f) ==
    IF f.k >= f.K THEN f
    ELSE SceneRun(ScenePlace(f, <<Margin, Margin>>,
                             [c \in 0..f.B-1 |-> IF c = 0 THEN SedTotal ELSE 0]))

Init ==
    /\ nb_K = MaxK
    /\ nb_shape = <<1, 9, 9>>
    /\ LET f == SceneRun(SceneStart(nb_shape, nb_K))
       IN  /\ nb_images = Defined(f.images)
           /\ nb_centers = Defined(f.centers)
           /\ nb_seds = Defined(f.seds)
           /\ nb_morphs = Defined(f.morphs)
    /\ nb_g = NoResults
    /\ frame = Idle
    /\ cell = NotRunning
    /\ call = NoCall
    /\ ret = Raised("none")

nb == <<nb_K, nb_shape, nb_images, nb_centers, nb_seds, nb_morphs, nb_g, frame, cell>>

\* a render function called with arguments a
CallGetFullModel ==
    /\ call = NoCall /\ frame = Idle
    /\ \E sh \in CallShapes : \E k \in 0..MaxKFor(sh) : \E comps \in ComponentLists(k, sh) :
         LET a == RenderArgs(comps, sh)
         IN  /\ call' = [fn |-> "get_full_model", args |-> a]
             /\ ret' = GetFullModel(a.seds, a.morphs, a.centers, a.shape)
    /\ UNCHANGED nb

CallGetFullModelAutograd ==
    /\ call = NoCall /\ frame = Idle
    /\ \E sh \in CallShapes : \E k \in 0..MaxKFor(sh) : \E comps \in ComponentLists(k, sh) :
         LET a == RenderArgs(comps, sh)
         IN  /\ call' = [fn |-> "get_full_model_autograd", args |-> a]
             /\ ret' = GetFullModelAutograd(a.seds, a.morphs, a.centers, a.shape)
    /\ UNCHANGED nb

CallGetFullModelJax ==
    /\ call = NoCall /\ frame = Idle
    /\ \E sh \in CallShapes : \E k \in 0..MaxKFor(sh) : \E comps \in ComponentLists(k, sh) :
         LET a == RenderArgs(comps, sh)
         IN  /\ call' = [fn |-> "get_full_model_jax", args |-> a]
             /\ ret' = GetFullModelJax(a.seds, a.morphs, a.centers, a.shape)
    /\ UNCHANGED nb

CallGetFullModelJit ==
    /\ call = NoCall /\ frame = Idle
    /\ \E sh \in CallShapes : \E k \in 0..MaxKFor(sh) : \E comps \in ComponentLists(k, sh) :
         LET a == RenderArgs(comps, sh)
         IN  /\ call' = [fn |-> "get_full_model_jit", args |-> a]
             /\ ret' = GetFullModelJit(a.seds, a.morphs, a.centers, a.shape)
    /\ UNCHANGED nb

CallCalculateGradientsDirect ==
    /\ call = NoCall /\ frame = Idle
    /\ \E sh \in DirectShapes : \E k \in 0..MaxKFor(sh) :
         \E comps \in ComponentLists(k, sh) : \E img \in DataImages(sh) :
         LET a == GradArgs(comps, img)
         IN  /\ call' = [fn |-> "calculate_gradients_direct", args |-> a]
             /\ ret' = CalculateGradientsDirect(a.images, a.centers, a.seds, a.morphs)
    /\ UNCHANGED nb

CallCalculateGradientsAutograd ==
    /\ call = NoCall /\ frame = Idle
    /\ \E sh \in CallShapes \ {ExampleShape} : \E k \in 0..MaxKFor(sh) :
         \E comps \in ComponentLists(k, sh) : \E img \in DataImages(sh) :
         LET a == GradArgs(comps, img)
         IN  /\ call' = [fn |-> "calculate_gradients_autograd", args |-> a]
             /\ ret' = CalculateGradientsAutograd(a.images, a.centers, a.seds,
                                                  a.morphs, nb_centers)
    /\ UNCHANGED nb

Next ==
    \/ CallGetFullModel
    \/ CallGetFullModelAutograd
    \/ CallGetFullModelJax
    \/ CallGetFullModelJit
    \/ CallCalculateGradientsDirect
    \/ CallCalculateGradientsAutograd

Spec == Init /\ [][Next]_vars

----------------------------------------------------------------------------
(* get_full_model on arguments outside its contract *)

\* centers anywhere around an image of shape sh, negative ones included: every
\* row from beyond the top to beyond the bottom, and columns left of the
\* image, on its edges, inside and right of it
AnyCenters(sh) ==
    (-(sh[2] + 1)..(sh[2] + 2)) \X {-Win, 0, 2, sh[3] - 1, sh[3]}

\* lists of k components, all at (2, 2) but the one at position j, whose
\* center is anywhere
ListsWithOneAnywhere(k, sh) ==
    {[i \in 0..k-1 |-> <<kinds[i], IF i = j THEN center ELSE <<2, 2>>>>] :
        kinds \in [0..k-1 -> Kinds(sh[1])], j \in 0..k-1, center \in AnyCenters(sh)}

\* a component whose sed has n channels, whatever the image has
KindsOfLength(n) ==
    {[sed |-> [c \in 0..n-1 |-> c + 2], morph |-> m] : m \in {MorphCenter, MorphArange}}

\* lists of k components with in-bounds centers and seds of 1 to b + 1 channels
ListsWithAnySed(k, b) ==
    [0..k-1 -> (UNION {KindsOfLength(n) : n \in 1..b+1}) \X {<<2, 2>>, <<4, 4>>}]

CallGetFullModelAnyCenter ==
    /\ call = NoCall /\ frame = Idle
    /\ \E b \in Channels : \E k \in 1..MaxK : \E comps \in ListsWithOneAnywhere(k, <<b, 6, 7>>) :
         LET a == RenderArgs(comps, <<b, 6, 7>>)
         IN  /\ call' = [fn |-> "get_full_model", args |-> a]
             /\ ret' = GetFullModel(a.seds, a.morphs, a.centers, a.shape)
    /\ UNCHANGED nb

CallGetFullModelAnySed ==
    /\ call = NoCall /\ frame = Idle
    /\ \E b \in Channels : \E k \in 1..MaxK : \E comps \in ListsWithAnySed(k, b) :
         LET a == RenderArgs(comps, <<b, 6, 7>>)
         IN  /\ call' = [fn |-> "get_full_model", args |-> a]
             /\ ret' = GetFullModel(a.seds, a.morphs, a.centers, a.shape)
    /\ UNCHANGED nb

NextFaults == CallGetFullModelAnyCenter \/ CallGetFullModelAnySed

SpecFaults == Init /\ [][NextFaults]_vars

----------------------------------------------------------------------------
(* The cell "Test the models", from its first gradient call on: the four    *)
(* calls, each binding a result, and the three lines that print the         *)
(* greatest differences                                                     *)

\* every scene build_scene can return from the frame f
RECURSIVE ScenesFrom(_)
ScenesFrom(f) ==
    IF f.k >= f.K THEN {f}
    ELSE UNION {ScenesFrom(ScenePlace(f, center, sed)) :
                   center \in SceneDraws(f), sed \in SceneSeds(f.B)}

\* the shapes of the scenes of the cell
CellShapes == {<<b, 9, 10>> : b \in Channels}

\* seds/2, a new array
HalfOf(seds) == [k \in DOMAIN seds |-> [c \in DOMAIN seds[k] |-> seds[k][c] \div 2]]

\* the objects of the notebook when a gradient function is called: images,
\* centers, seds and morphs (anp.asarray returns the numpy array it is given)
\* and the new array seds/2
CellStore ==
    <<nb_images.val, nb_centers.val, nb_seds.val, nb_morphs.val, HalfOf(nb_seds.val)>>
Store0 == [i \in 0..4 |-> CellStore[i + 1]]

\* the values a call is given, the objects it was given as the call leaves
\* them, and the object it accumulated into
CallOnStore(fn, out) ==
    [fn |-> fn,
     args |-> [images |-> Store0[0], centers |-> Store0[1], seds |-> Store0[4],
               morphs |-> Store0[3], shape |-> ShapeOf(Store0[0])],
     passed |-> [images |-> out.store[0], centers |-> out.store[1],
                 seds |-> out.store[4], morphs |-> out.store[3]],
     objects |-> Size(Store0),
     model |-> out.model]

\* name = result, or the cell stops at the line that raised
Bind(name, fn, result, next) ==
    IF result.exc = "none"
    THEN /\ nb_g' = [nb_g EXCEPT ![name] = Defined([by |-> fn, val |-> result.val])]
         /\ cell' = [pc |-> next]
    ELSE /\ nb_g' = nb_g
         /\ cell' = [pc |-> "raised", at |-> cell.pc, exc |-> result.exc]

InitCell ==
    /\ nb_K \in 0..MaxK
    /\ nb_shape \in CellShapes
    /\ \E f \in ScenesFrom(SceneStart(nb_shape, nb_K)) :
          /\ nb_images = Defined(f.images)
          /\ nb_centers = Defined(f.centers)
          /\ nb_seds = Defined(f.seds)
          /\ nb_morphs = Defined(f.morphs)
    /\ nb_g = NoResults
    /\ frame = Idle
    /\ cell = [pc |-> "direct"]
    /\ call = NoCall
    /\ ret = Raised("none")

\* g_direct = calculate_gradients_direct(images, centers, seds/2, morphs)
CellDirect ==
    /\ cell.pc = "direct"
    /\ LET out == StoreCalculateGradientsDirect(Store0, 0, 1, 4, 3)
       IN  /\ call' = CallOnStore("calculate_gradients_direct", out)
           /\ ret' = out.ret
           /\ nb_images' = Defined(out.store[0])
           /\ nb_centers' = Defined(out.store[1])
           /\ nb_seds' = Defined(out.store[2])
           /\ nb_morphs' = Defined(out.store[3])
           /\ Bind("g_direct", "calculate_gradients_direct", out.ret, "autograd")
    /\ UNCHANGED <<nb_K, nb_shape, frame>>

\* g_auto = calculate_gradients_autograd(images_autograd, centers_autograd,
\* seds_autograd/2, morphs_autograd)
CellAutograd ==
    /\ cell.pc = "autograd"
    /\ LET out == StoreCalculateGradientsAutograd(Store0, 0, 1, 4, 3,
                      IF nb_centers.defined THEN Defined(1) ELSE Undefined)
       IN  /\ call' = CallOnStore("calculate_gradients_autograd", out)
           /\ ret' = out.ret
           /\ nb_images' = Defined(out.store[0])
           /\ nb_centers' = Defined(out.store[1])
           /\ nb_seds' = Defined(out.store[2])
           /\ nb_morphs' = Defined(out.store[3])
           /\ Bind("g_auto", "calculate_gradients_autograd", out.ret, "jax")
    /\ UNCHANGED <<nb_K, nb_shape, frame>>

\* the values the JAX calls are given: jnp.asarray copies the arrays
JaxArgs ==
    [images |-> nb_images.val, centers |-> nb_centers.val,
     seds |-> HalfOf(nb_seds.val), morphs |-> nb_morphs.val,
     shape |-> ShapeOf(nb_images.val)]

\* g_jax = calculate_gradients_jax(images_jax, centers_jax, seds_jax/2, morphs_jax)
CellJax ==
    /\ cell.pc = "jax"
    /\ LET a == JaxArgs
           result == CalculateGradientsJax(a.images, a.centers, a.seds, a.morphs)
       IN  /\ call' = [fn |-> "calculate_gradients_jax", args |-> a]
           /\ ret' = result
           /\ Bind("g_jax", "calculate_gradients_jax", result, "jit")
    /\ UNCHANGED <<nb_K, nb_shape, nb_images, nb_centers, nb_seds, nb_morphs, frame>>

\* g_jax = calculate_gradients_jit(images_jax, centers_jax, seds_jax/2, morphs_jax)
CellJit ==
    /\ cell.pc = "jit"
    /\ LET a == JaxArgs
           result == CalculateGradientsJit(a.images, a.centers, a.seds, a.morphs)
       IN  /\ call' = [fn |-> "calculate_gradients_jit", args |-> a]
           /\ ret' = result
           /\ Bind("g_jax", "calculate_gradients_jit", result, "print_auto")
    /\ UNCHANGED <<nb_K, nb_shape, nb_images, nb_centers, nb_seds, nb_morphs, frame>>

\* np.max(np.abs(a - b)) for the sed gradients and for the morph gradients
AbsVal(v) == IF v < 0 THEN -v ELSE v
MaxOf(S) == CHOOSE m \in S : \A v \in S : v <= m
MaxAbsDiffSeds(a, b) ==
    MaxOf({AbsVal(a[k][c] - b[k][c]) : k \in DOMAIN a, c \in DOMAIN a[0]})
MaxAbsDiffMorphs(a, b) ==
    MaxOf({AbsVal(a[k][i][j] - b[k][i][j]) : k \in DOMAIN a, i \in 0..Win-1, j \in 0..Win-1})

\* print(np.max(np.abs(x[0]-y[0])), np.max(np.abs(x[1]-y[1]))) for the results
\* bound to the names x and y: NameError if one of them is not bound
PrintDifference(x, y, next) ==
    IF ~nb_g[x].defined \/ ~nb_g[y].defined
    THEN cell' = [pc |-> "raised", at |-> cell.pc, exc |-> "NameError"]
    ELSE cell' = [pc |-> next,
                  printed |-> <<MaxAbsDiffSeds(nb_g[x].val.val[1], nb_g[y].val.val[1]),
                                MaxAbsDiffMorphs(nb_g[x].val.val[2], nb_g[y].val.val[2])>>]

\* print(np.max(np.abs(g_auto[0]-g_direct[0])), ...)
CellPrintAuto ==
    /\ cell.pc = "print_auto"
    /\ PrintDifference("g_auto", "g_direct", "print_jax")
    /\ UNCHANGED <<nb_K, nb_shape, nb_images, nb_centers, nb_seds, nb_morphs, nb_g,
                   frame, call, ret>>

\* print(np.max(np.abs(g_direct[0]-g_jax[0])), ...)
CellPrintJax ==
    /\ cell.pc = "print_jax"
    /\ PrintDifference("g_direct", "g_jax", "print_jit")
    /\ UNCHANGED <<nb_K, nb_shape, nb_images, nb_centers, nb_seds, nb_morphs, nb_g,
                   frame, call, ret>>

\* print(np.max(np.abs(g_direct[0]-g_jit[0])), ...)
CellPrintJit ==
    /\ cell.pc = "print_jit"
    /\ PrintDifference("g_direct", "g_jit", "done")
    /\ UNCHANGED <<nb_K, nb_shape, nb_images, nb_centers, nb_seds, nb_morphs, nb_g,
                   frame, call, ret>>

NextCell ==
    \/ CellDirect
    \/ CellAutograd
    \/ CellJax
    \/ CellJit
    \/ CellPrintAuto
    \/ CellPrintJax
    \/ CellPrintJit

SpecCell == InitCell /\ [][NextCell]_vars

----------------------------------------------------------------------------
(* The scene cell: images, centers, seds, morphs = build_scene(shape, K) *)

InitScene ==
    /\ nb_K \in 0..MaxK
    /\ nb_shape \in Channels \X (8..MaxSceneDim) \X (8..MaxSceneDim)
    /\ nb_images = Undefined
    /\ nb_centers = Undefined
    /\ nb_seds = Undefined
    /\ nb_morphs = Undefined
    /\ nb_g = NoResults
    /\ frame = Idle
    /\ cell = NotRunning
    /\ call = NoCall
    /\ ret = Raised("none")

\* build_scene is entered and runs up to its placement loop
BuildSceneCall ==
    /\ frame = Idle /\ ~nb_centers.defined
    /\ frame' = SceneStart(nb_shape, nb_K)
    /\ UNCHANGED <<nb_K, nb_shape, nb_images, nb_centers, nb_seds, nb_morphs, nb_g, cell, call, ret>>

\* one iteration of the placement loop; randint raises when it has no value
\* to draw
BuildScenePlace ==
    /\ frame.pc = "place" /\ frame.k < frame.K
    /\ IF SceneDraws(frame) = {}
       THEN frame' = [pc |-> "raised", exc |-> "ValueError"]
       ELSE \E center \in SceneDraws(frame), sed \in SceneSeds(frame.B) :
              frame' = ScenePlace(frame, center, sed)
    /\ UNCHANGED <<nb_K, nb_shape, nb_images, nb_centers, nb_seds, nb_morphs, nb_g, cell, call, ret>>

\* build_scene returns and the cell assigns the four notebook-level variables
BuildSceneReturn ==
    /\ frame.pc = "place" /\ frame.k >= frame.K
    /\ nb_images' = Defined(frame.images)
    /\ nb_centers' = Defined(frame.centers)
    /\ nb_seds' = Defined(frame.seds)
    /\ nb_morphs' = Defined(frame.morphs)
    /\ frame' = Idle
    /\ UNCHANGED <<nb_K, nb_shape, nb_g, cell, call, ret>>

NextScene == BuildSceneCall \/ BuildScenePlace \/ BuildSceneReturn

SpecScene == InitScene /\ [][NextScene]_vars
----------------------------------------------------------------------------
(* What the claims speak of *)

Args == call.args
NumComponents == Size(Args.seds)
Called(fn) == call.fn = fn
ReturnedValue == ret.exc = "none"

\* the window of component k of the call: its first row and column
WinRow(k) == Args.centers[k][1] - 1
WinCol(k) == Args.centers[k][2] - 1

\* pixel (r, q) lies in the window of component k
InWindow(k, r, q) ==
    /\ r >= WinRow(k) /\ r <= WinRow(k) + 2
    /\ q >= WinCol(k) /\ q <= WinCol(k) + 2

\* every window of the call lies inside the image
InBounds ==
    \A k \in DOMAIN Args.centers :
        /\ WinRow(k) >= 0 /\ WinRow(k) + 2 <= Args.shape[2] - 1
        /\ WinCol(k) >= 0 /\ WinCol(k) + 2 <= Args.shape[3] - 1

\* the windows of components k and l share a pixel
Overlap(k, l) ==
    /\ WinRow(k) <= WinRow(l) + 2 /\ WinRow(l) <= WinRow(k) + 2
    /\ WinCol(k) <= WinCol(l) + 2 /\ WinCol(l) <= WinCol(k) + 2

NonOverlapping ==
    \A k, l \in DOMAIN Args.centers : k # l => ~Overlap(k, l)

Pixels(sh) == (0..sh[1]-1) \X (0..sh[2]-1) \X (0..sh[3]-1)

\* the sum over the components whose window holds (r, q) of
\* sed[c] * morph[r - (y-1), q - (x-1)]
ModelAt(c, r, q) ==
    SumTo([k \in DOMAIN Args.seds |->
             IF InWindow(k, r, q)
             THEN Args.seds[k][c] * Args.morphs[k][r - WinRow(k)][q - WinCol(k)]
             ELSE 0], NumComponents)

\* the image get_full_model renders from the arguments of the call
Rendered(a) == GetFullModel(a.seds, a.morphs, a.centers, a.shape).val[1]

\* U = model - data
Upstream(model, data) ==
    [c \in DOMAIN model |->
      [r \in DOMAIN model[c] |->
        [q \in DOMAIN model[c][r] |-> model[c][r][q] - data[c][r][q]]]]

\* the sum of all pixels of an image
SumImage(img) ==
    LET sh == ShapeOf(img)
    IN  SumTo([c \in 0..sh[1]-1 |->
                 SumTo([r \in 0..sh[2]-1 |-> SumTo(img[c][r], sh[3])], sh[2])], sh[1])

\* twice the summed loss L of arguments a: the sum of 2*logL(data, model)
TwiceLoss(a) == SumImage(TwiceLogL(a.images, Rendered(a)))

C2_ExactDerivative ==
    (Called("calculate_gradients_direct") /\ InBounds /\ ReturnedValue) =>
        \A k \in 0..NumComponents-1 :
            /\ \A c \in 0..Args.shape[1]-1 :
                 TwiceLoss([Args EXCEPT !.seds[k][c] = @ + 1])
                   - TwiceLoss([Args EXCEPT !.seds[k][c] = @ - 1])
                   = 4 * ret.val[1][k][c]
            /\ \A i \in 0..2, j \in 0..2 :
                 TwiceLoss([Args EXCEPT !.morphs[k][i][j] = @ + 1])
                   - TwiceLoss([Args EXCEPT !.morphs[k][i][j] = @ - 1])
                   = 4 * ret.val[2][k][i][j]

\* a direct-gradient call on two components whose windows overlap without
\* coinciding
C2_Witness ==
    /\ Called("calculate_gradients_direct") /\ InBounds /\ ReturnedValue
    /\ NumComponents = 2
    /\ Args.centers[0] # Args.centers[1]
    /\ Overlap(0, 1)
    /\ ret.val[2][0] # ret.val[2][1]

\* the arguments of the example: sed = [1], a morph that is 1 at its center,
\* center (5, 5), shape (1, 11, 11)
IsExample ==
    /\ Args.shape = <<1, 11, 11>>
    /\ NumComponents = 1
    /\ Args.seds[0] = [c \in {0} |-> 1]
    /\ Args.morphs[0] = [i \in 0..2 |-> [j \in 0..2 |-> IF i = 1 /\ j = 1 THEN 1 ELSE 0]]
    /\ Args.centers[0] = <<5, 5>>

\* C3: for one or more components with in-bounds windows, get_full_model
\* returns the image that is at each pixel the sum over the components whose
\* window holds it of sed[c] * morph[r-(y-1), q-(x-1)], 0 where no window is;
\* the example gives 1 at (0, 5, 5) and 0 elsewhere.
C3_FullModel ==
    (Called("get_full_model") /\ InBounds /\ NumComponents >= 1) =>
        /\ ReturnedValue
        /\ ShapeOf(ret.val[1]) = Args.shape
        /\ \A p \in Pixels(Args.shape) :
             ret.val[1][p[1]][p[2]][p[3]] = ModelAt(p[1], p[2], p[3])
        /\ \A p \in Pixels(Args.shape) :
             (\A k \in 0..NumComponents-1 : ~InWindow(k, p[2], p[3]))
                => ret.val[1][p[1]][p[2]][p[3]] = 0
        /\ IsExample =>
             \A p \in Pixels(Args.shape) :
                ret.val[1][p[1]][p[2]][p[3]] = IF p = <<0, 5, 5>> THEN 1 ELSE 0

\* get_full_model has returned an image for the example
C3_Witness ==
    /\ Called("get_full_model") /\ IsExample /\ ReturnedValue
    /\ ret.val[1][0][5][5] = 1

\* C4, as claimed: for non-overlapping in-bounds windows
\* calculate_gradients_autograd returns, from the same arguments, the
\* gradients calculate_gradients_direct returns, entry by entry.
C4_AutogradEqualsDirect ==
    (Called("calculate_gradients_autograd") /\ InBounds /\ NonOverlapping) =>
        LET direct == CalculateGradientsDirect(Args.images, Args.centers,
                                               Args.seds, Args.morphs)
        IN  /\ ret.exc = direct.exc
            /\ ReturnedValue => ret.val = direct.val

Only(a, k) ==
    [a EXCEPT !.seds = [i \in {0} |-> a.seds[k]],
              !.morphs = [i \in {0} |-> a.morphs[k]],
              !.centers = [i \in {0} |-> a.centers[k]]]

\* C6: for two components A and B with in-bounds windows that do not overlap,
\* the image of [A, B] is the pixelwise sum of the image of [A] and the image
\* of [B].
C6_RenderLinear ==
    (Called("get_full_model") /\ InBounds /\ NumComponents = 2 /\ NonOverlapping) =>
        /\ ReturnedValue
        /\ \A p \in Pixels(Args.shape) :
             ret.val[1][p[1]][p[2]][p[3]] =
                Rendered(Only(Args, 0))[p[1]][p[2]][p[3]]
                  + Rendered(Only(Args, 1))[p[1]][p[2]][p[3]]

\* get_full_model has rendered two different components whose windows lie apart
C6_Witness ==
    /\ Called("get_full_model") /\ InBounds /\ ReturnedValue
    /\ NumComponents = 2 /\ NonOverlapping
    /\ Args.seds[0] # Args.seds[1]
    /\ Rendered(Only(Args, 0)) # Rendered(Only(Args, 1))

\* C7, as claimed: get_full_model called with no components returns an image
\* of the requested shape whose every pixel is 0.
C7_EmptyRenderIsZero ==
    (Called("get_full_model") /\ NumComponents = 0) =>
        (ReturnedValue /\ ret.val[1] = Zeros(Args.shape))

\* the box (rows y-1..y+1, columns x-1..x+1) component k is added into; the
\* autograd and JAX variants put slice(None), all channels, before it
BoxUsed(k) ==
    LET rc == <<Slice(WinRow(k), WinRow(k) + 3), Slice(WinCol(k), WinCol(k) + 3)>>
    IN  PyTuple(IF Called("get_full_model") THEN rc ELSE <<SliceNone>> \o rc)

\* C8, as claimed: the second value get_full_model, get_full_model_autograd
\* and get_full_model_jax return is the list of the boxes used, one for each
\* component in input order.
C8_ReturnsBoxes ==
    ((Called("get_full_model") \/ Called("get_full_model_autograd")
        \/ Called("get_full_model_jax")) /\ InBounds /\ ReturnedValue) =>
        /\ ret.val[2].type = "list"
        /\ Len(ret.val[2].items) = NumComponents
        /\ \A k \in 0..NumComponents-1 : ret.val[2].items[k + 1] = BoxUsed(k)

\* the center of the call's only component is 1 pixel from an edge
AtEdge ==
    /\ NumComponents = 1
    /\ \/ Args.centers[0][1] \in {1, Args.shape[2] - 2}
       \/ Args.centers[0][2] \in {1, Args.shape[3] - 2}

\* C9: a component whose center is 1 pixel from an edge is rendered without
\* error, the whole patch sed*morph at rows y-1..y+1 and columns x-1..x+1 and
\* no other pixel changed.
C9_EdgeRender ==
    (Called("get_full_model") /\ AtEdge) =>
        /\ ReturnedValue
        /\ \A p \in Pixels(Args.shape) :
             ret.val[1][p[1]][p[2]][p[3]] =
                IF InWindow(0, p[2], p[3])
                THEN Args.seds[0][p[1]]
                       * Args.morphs[0][p[2] - WinRow(0)][p[3] - WinCol(0)]
                ELSE 0

\* get_full_model has rendered a component in the bottom right corner: its
\* window touches the last row and the last column
C9_Witness ==
    /\ Called("get_full_model") /\ AtEdge /\ ReturnedValue
    /\ Args.centers[0] = <<Args.shape[2] - 2, Args.shape[3] - 2>>
    /\ ret.val[1][0][Args.shape[2] - 1][Args.shape[3] - 1] # 0

\* a center keeps the margin in an image of n rows and m columns, so that its
\* window lies inside the image
KeepsMargin(center, n, m) ==
    /\ 4 <= center[1] /\ center[1] <= n - 5
    /\ 4 <= center[2] /\ center[2] <= m - 5
    /\ center[1] - 1 >= 0 /\ center[1] + 1 <= n - 1
    /\ center[2] - 1 >= 0 /\ center[2] + 1 <= m - 1

\* C10: every center build_scene has placed, at every step of the placement
\* loop and when it is returned, satisfies 4 <= cy <= N-5 and 4 <= cx <= M-5,
\* so its window lies inside the image.
C10_SceneMargin ==
    /\ frame.pc = "place" =>
         \A i \in 0..frame.k-1 : KeepsMargin(frame.centers[i], nb_shape[2], nb_shape[3])
    /\ nb_centers.defined =>
         \A i \in DOMAIN nb_centers.val :
            KeepsMargin(nb_centers.val[i], nb_shape[2], nb_shape[3])

\* the scene cell has assigned centers, one of them at the last row and column
\* the draw allows
C10_Witness ==
    /\ nb_centers.defined
    /\ nb_K >= 2
    /\ nb_shape[2] > 9
    /\ nb_centers.val[0] = <<4, 4>>
    /\ nb_centers.val[1] = <<nb_shape[2] - 5, nb_shape[3] - 5>>

\* some component of the call has a window that is not wholly inside the image
SomeWindowOutside == ~InBounds

\* C11, as claimed: when the window of some component, at a center of any
\* sign, is not wholly inside the image, get_full_model ends in an error at
\* the accumulation and returns no image.
C11_OutOfBoundsFailsFast ==
    (Called("get_full_model") /\ SomeWindowOutside) =>
        (~ReturnedValue /\ ret.exc = "ValueError")

\* some component of the call has a sed whose length is not the channel count
SomeSedMismatch ==
    \E k \in DOMAIN Args.seds : Size(Args.seds[k]) # Args.shape[1]

\* C12, as claimed: when the sed of some component has a length other than
\* the channel count B of the shape, a sed of length 1 with B > 1 included,
\* get_full_model ends in a shape-mismatch error at the accumulation and
\* returns no image.
C12_SedMismatchFailsFast ==
    (Called("get_full_model") /\ SomeSedMismatch) =>
        (~ReturnedValue /\ ret.exc = "ValueError")

\* the gradient function of the call, called again on the objects the call
\* was given, as they are now
SecondCall ==
    LET store == [i \in 0..4 |->
                    <<call.passed.images, call.passed.centers, nb_seds.val,
                      call.passed.morphs, call.passed.seds>>[i + 1]]
    IN  IF Called("calculate_gradients_direct")
        THEN StoreCalculateGradientsDirect(store, 0, 1, 4, 3).ret
        ELSE StoreCalculateGradientsAutograd(store, 0, 1, 4, 3, Defined(1)).ret

\* the gradients of the arguments of the call when the model they are
\* accumulated into starts as zeros
FromZeros ==
    IF Called("calculate_gradients_direct")
    THEN CalculateGradientsDirect(Args.images, Args.centers, Args.seds, Args.morphs)
    ELSE CalculateGradientsAutograd(Args.images, Args.centers, Args.seds, Args.morphs,
                                    Defined(Args.centers))

\* C13: when calculate_gradients_direct or calculate_gradients_autograd has
\* returned, the arrays images, centers, seds and morphs it was given, and
\* the notebook-level arrays, hold the values they held at the call; the
\* model it accumulated into is an object created by the call, starting as
\* zeros; and a second call on the same objects returns the same gradients.
C13_ArgumentsUnchanged ==
    ((Called("calculate_gradients_direct") \/ Called("calculate_gradients_autograd"))
        /\ ReturnedValue /\ cell.pc # "idle") =>
        /\ call.passed.images = Args.images
        /\ call.passed.centers = Args.centers
        /\ call.passed.seds = Args.seds
        /\ call.passed.morphs = Args.morphs
        /\ nb_images.val = Args.images
        /\ nb_centers.val = Args.centers
        /\ HalfOf(nb_seds.val) = Args.seds
        /\ nb_morphs.val = Args.morphs
        /\ call.model >= call.objects
        /\ ret = FromZeros
        /\ SecondCall = ret

\* calculate_gradients_autograd has returned non-zero gradients for two
\* components whose windows overlap, on a data image that is not zero
C13_Witness ==
    /\ Called("calculate_gradients_autograd") /\ ReturnedValue /\ cell.pc = "jax"
    /\ NumComponents = 2
    /\ Overlap(0, 1)
    /\ Args.images # Zeros(Args.shape)
    /\ ret.val[1][1][0] # 0
    /\ ret.val[2][0] # Args.morphs[0]

\* what calculate_gradients_autograd returns for the arguments of the call
\* when the notebook-level centers hold the value glob
AutogradUnder(glob) ==
    CalculateGradientsAutograd(Args.images, Args.centers, Args.seds, Args.morphs, glob)

\* C14, as claimed: what calculate_gradients_autograd returns is what a call
\* with the same four arguments returns under any other value of the
\* notebook-level centers, the value of the centers argument among them: the
\* windows differentiated through are those of the argument.
C14_ArgumentsAlone ==
    Called("calculate_gradients_autograd") =>
        \A glob \in {Defined(Args.centers),
                      Defined([k \in DOMAIN Args.centers |-> <<2, 2>>])} :
            ret = AutogradUnder(glob)

\* the notebook-level name holds a result of the function fn
HoldsResultOf(name, fn) == nb_g[name].defined /\ nb_g[name].val.by = fn

\* the cell is at one of its three printing lines
AtPrints == cell.pc \in {"print_auto", "print_jax", "print_jit"}

\* C15, as claimed: in the cell run from a state where none of g_direct,
\* g_auto, g_jax, g_jit is bound, when the three printing lines are executed
\* g_auto holds the result of calculate_gradients_autograd, g_jax that of
\* calculate_gradients_jax and g_jit that of calculate_gradients_jit, and none
\* of the three lines raises.
C15_ComparisonsComplete ==
    /\ AtPrints =>
         /\ HoldsResultOf("g_auto", "calculate_gradients_autograd")
         /\ HoldsResultOf("g_jax", "calculate_gradients_jax")
         /\ HoldsResultOf("g_jit", "calculate_gradients_jit")
    /\ cell.pc = "raised" =>
         cell.at \notin {"print_auto", "print_jax", "print_jit"}
====
